---- MODULE Spec2Model ----
(***************************************************************************)
(* Model of the geocoin game of src/src/main.ts (the last version in the   *)
(* file, lines 366-838): the player, the cache registry, the mementos, the *)
(* discovery marks, the movement trail and the snapshot in localStorage.   *)
(*                                                                         *)
(* Strings built from a cell, `${i},${j}`, are modelled by the pair        *)
(* <<i, j>>; a coin id `${cacheKey}#${serial}` by the record               *)
(* [key |-> <<i, j>>, serial |-> n].  Geographic coordinates are counted   *)
(* in units of 1e-5 degree, luck values in hundredths.                     *)
(***************************************************************************)
EXTENDS Integers, Sequences, FiniteSets, TLC

VARIABLES pc, playerPosition, playerCoins, movementHistory, caches,
          knownTiles, cacheMementos, localStorage, starts, lastOp,
          oracle, probe

vars == <<pc, playerPosition, playerCoins, movementHistory, caches,
          knownTiles, cacheMementos, localStorage, starts, lastOp,
          oracle, probe>>

(* ---------------------------- bounds ----------------------------------- *)

\* the player stays within this many cells (Manhattan) of OAKES_GRID
MaxStep == 1

\* the movement trail holds at most this many points
MaxTrail == 2

\* the page is opened at most this many times
MaxStarts == 2

(* --------------------------- constants --------------------------------- *)

TILE_DEGREES == 10

NEIGHBORHOOD_SIZE == 8

CACHE_SPAWN_PROBABILITY == 10

INITIAL_PLAYER_COINS == 0

OAKES_GRID == [i |-> 369894, j |-> -1220627]

(* ---------------------------- the oracle ------------------------------- *)

\* a cell of the first neighbourhood that holds a cache
CellA == <<OAKES_GRID.i + 1, OAKES_GRID.j>>

\* a cell just outside the first neighbourhood that holds a cache
CellB == <<OAKES_GRID.i + NEIGHBORHOOD_SIZE, OAKES_GRID.j>>

\* a cell of the first neighbourhood whose luck is exactly the threshold
CellC == <<OAKES_GRID.i, OAKES_GRID.j + 1>>

Cells == {CellA, CellB, CellC}

\* the two luck values of CellA in the game
GameOracle == [spawn |-> 5, coins |-> 35]

\* luck([i, j].toString()) and luck([i, j, "coins"].toString()), in hundredths;
\* the two values of CellA are those of the variable oracle, which no step changes
luck(situation) ==
    IF Len(situation) = 2
    THEN CASE situation = CellA -> oracle.spawn
           [] situation = CellB -> 9
           [] situation = CellC -> 10
           [] OTHER -> 50
    ELSE CASE SubSeq(situation, 1, 2) = CellA -> oracle.coins
           [] SubSeq(situation, 1, 2) = CellB -> 0
           [] OTHER -> 70

(* ---------------------------- helpers ---------------------------------- *)

Max(a, b) == IF a >= b THEN a ELSE b

\* Map.set(key, value)
MapSet(m, key, value) ==
    [k \in (DOMAIN m) \cup {key} |-> IF k = key THEN value ELSE m[k]]

\* new Map()
EmptyMap == [k \in {} |-> <<>>]

\* movementHistory = null
NullPolyline == [exists |-> FALSE, latlngs |-> <<>>]

\* localStorage.getItem("gameState") === null
NoItem == [present |-> FALSE]

\* a stored item JSON.parse rejects
Unparsable == [present |-> TRUE, text |-> "{"]

\* a stored item that parses to an object without the field caches
NoCachesItem ==
    [present |-> TRUE,
     playerPosition |-> [i |-> OAKES_GRID.i, j |-> OAKES_GRID.j],
     playerCoins |-> 1]

\* no input and no result of a conversion is under watch
NoProbe == [out |-> "none"]

\* `${cacheKey}#${serial}`
CoinId(cacheKey, serial) == [id |-> [key |-> cacheKey, serial |-> serial]]

(* ----------------------- grid coordinate system ------------------------ *)

\* gridToLatLng({i, j})
gridToLatLng(cell) ==
    [lat |-> 0 + cell.i * TILE_DEGREES, lng |-> 0 + cell.j * TILE_DEGREES]

\* Math.floor for Math.round in latLngToGrid
RoundDiv_floor(x) == x \div TILE_DEGREES

\* Math.round(x / TILE_DEGREES): the nearest integer, a half rounded up
RoundDiv(x) == (2 * x + TILE_DEGREES) \div (2 * TILE_DEGREES)

\* latLngToGrid(latLng)
latLngToGrid(latLng) ==
    [i |-> RoundDiv(latLng.lat - 0), j |-> RoundDiv(latLng.lng - 0)]

(* ----------------------- world generation policy ----------------------- *)

\* luck([i, j].toString()) < CACHE_SPAWN_PROBABILITY
shouldSpawnCache(i, j) == luck(<<i, j>>) < CACHE_SPAWN_PROBABILITY

\* coinCount as the first map version computed it: floor(luck * 10) + 1
coinCount_plusOne(i, j) == (luck(<<i, j, "coins">>) \div 10) + 1

\* Math.max(1, Math.floor(luck([i, j, "coins"].toString()) * 10))
coinCount(i, j) == Max(1, luck(<<i, j, "coins">>) \div 10)

\* cacheCoins with the serials counted from 1
cacheCoins_fromOne(i, j) ==
    [n \in 1..coinCount(i, j) |-> CoinId(<<i, j>>, n)]

\* Array.from({length: coinCount}, (_, serial) => ({id: `${cacheKey}#${serial}`}))
cacheCoins(i, j) ==
    [n \in 1..coinCount(i, j) |-> CoinId(<<i, j>>, n - 1)]

(* ---------------------------- cache registry --------------------------- *)

\* the three maps spawnCache and spawnCaches work on
World(c, m, k) == [caches |-> c, cacheMementos |-> m, knownTiles |-> k]

\* spawnCache taking the memento of a cell that has a live cache from that
\* cache instead of generating it
spawnCache_fromRegistry(w, i, j) ==
    LET cacheKey == <<i, j>>
        mementos == IF cacheKey \notin DOMAIN w.cacheMementos
                    THEN MapSet(w.cacheMementos, cacheKey,
                                IF cacheKey \in DOMAIN w.caches
                                THEN w.caches[cacheKey]
                                ELSE [coins |-> cacheCoins(i, j)])
                    ELSE w.cacheMementos
    IN  World(MapSet(w.caches, cacheKey, mementos[cacheKey]),
              mementos, w.knownTiles)

\* spawnCache(map, i, j): a memento is generated only when the cell has none;
\* the live cache is always set to a copy of the memento
spawnCache(w, i, j) ==
    LET cacheKey == <<i, j>>
        mementos == IF cacheKey \notin DOMAIN w.cacheMementos
                    THEN MapSet(w.cacheMementos, cacheKey,
                                [coins |-> cacheCoins(i, j)])
                    ELSE w.cacheMementos
    IN  World(MapSet(w.caches, cacheKey, mementos[cacheKey]),
              mementos, w.knownTiles)

\* spawnCell without the test of knownTiles
spawnCell_noKnownCheck(w, i, j) ==
    IF shouldSpawnCache(i, j)
    THEN LET s == spawnCache(w, i, j)
         IN  World(s.caches, s.cacheMementos, s.knownTiles \cup {<<i, j>>})
    ELSE w

\* the body of the two loops of spawnCaches for one cell
spawnCell(w, i, j) ==
    IF <<i, j>> \notin w.knownTiles /\ shouldSpawnCache(i, j)
    THEN LET s == spawnCache(w, i, j)
         IN  World(s.caches, s.cacheMementos, s.knownTiles \cup {<<i, j>>})
    ELSE w

\* the loops of spawnCaches with <= for < in their conditions
Neighborhood_closed(pos) ==
    {<<i, j>> : i \in (pos.i - NEIGHBORHOOD_SIZE)..(pos.i + NEIGHBORHOOD_SIZE),
                j \in (pos.j - NEIGHBORHOOD_SIZE)..(pos.j + NEIGHBORHOOD_SIZE)}

\* the cells the two loops of spawnCaches visit with the player at pos
Neighborhood(pos) ==
    {<<i, j>> : i \in (pos.i - NEIGHBORHOOD_SIZE)..(pos.i + NEIGHBORHOOD_SIZE - 1),
                j \in (pos.j - NEIGHBORHOOD_SIZE)..(pos.j + NEIGHBORHOOD_SIZE - 1)}

\* the cell the loops visit first among cells: the least i, then the least j
FirstCell(cells) ==
    CHOOSE c \in cells :
        \A d \in cells : c[1] < d[1] \/ (c[1] = d[1] /\ c[2] <= d[2])

RECURSIVE spawnLoop(_, _)
\* the loops of spawnCaches over cells, in the order of the loops; the cells
\* the condition of the loop body rejects for their luck are left out beforehand
spawnLoop(w, cells) ==
    IF cells = {} THEN w
    ELSE LET c == FirstCell(cells)
         IN  spawnLoop(spawnCell(w, c[1], c[2]), cells \ {c})

\* spawnCaches(map) with the player at pos
spawnCaches(w, pos) ==
    spawnLoop(w, {c \in Neighborhood(pos) : shouldSpawnCache(c[1], c[2])})

(* ------------------------------ persistence ---------------------------- *)

RECURSIVE Entries(_)
\* Array.from(caches.entries()): the list of [key, value] pairs
Entries(m) ==
    IF DOMAIN m = {} THEN <<>>
    ELSE LET k == CHOOSE x \in DOMAIN m : TRUE
         IN  <<<<k, m[k]>>>> \o Entries([x \in (DOMAIN m) \ {k} |-> m[x]])

RECURSIVE FromEntries(_, _)
\* savedCaches.forEach(([key, value]) => caches.set(key, value))
FromEntries(m, list) ==
    IF list = <<>> THEN m
    ELSE FromEntries(MapSet(m, Head(list)[1], Head(list)[2]), Tail(list))

\* gameState as the earlier saveGameState built it: the trail is not saved
gameState_noTrail(mem) ==
    [present |-> TRUE,
     playerPosition |-> mem.playerPosition,
     playerCoins |-> mem.playerCoins,
     caches |-> Entries(mem.caches),
     movementHistory |-> <<>>]

\* the gameState object saveGameState builds from the memory mem
gameState(mem) ==
    [present |-> TRUE,
     playerPosition |-> mem.playerPosition,
     playerCoins |-> mem.playerCoins,
     caches |-> Entries(mem.caches),
     movementHistory |-> IF mem.movementHistory.exists
                         THEN [n \in DOMAIN mem.movementHistory.latlngs |->
                                 [lat |-> mem.movementHistory.latlngs[n].lat,
                                  lng |-> mem.movementHistory.latlngs[n].lng]]
                         ELSE <<>>]

\* the part of the memory the snapshot is about
Memory(pos, coins, c, hist) ==
    [playerPosition |-> pos, playerCoins |-> coins, caches |-> c,
     movementHistory |-> hist]

\* the memory of the running page
Mem == Memory(playerPosition, playerCoins, caches, movementHistory)

\* the memory right after the module's declarations have run
FreshMem == Memory(OAKES_GRID, INITIAL_PLAYER_COINS, EmptyMap, NullPolyline)

\* JSON.parse(savedState) returns an object
Parses(item) == "text" \notin DOMAIN item

\* loadGameState() throws: JSON.parse rejects the item, or savedCaches is
\* undefined at savedCaches.forEach; nothing in loadGameState or main catches
loadThrows(item) ==
    item.present /\ (~Parses(item) \/ "caches" \notin DOMAIN item)

\* loadGameState(): the memory after it, or at the point where it throws,
\* given the stored item
loadGameState(item, mem) ==
    IF ~item.present \/ ~Parses(item) THEN mem
    ELSE IF "caches" \notin DOMAIN item
    THEN Memory([i |-> item.playerPosition.i, j |-> item.playerPosition.j],
                item.playerCoins, EmptyMap, mem.movementHistory)
    ELSE Memory([i |-> item.playerPosition.i, j |-> item.playerPosition.j],
                item.playerCoins,
                FromEntries(EmptyMap, item.caches),
                IF "movementHistory" \in DOMAIN item
                THEN [exists |-> TRUE, latlngs |-> item.movementHistory]
                ELSE mem.movementHistory)

\* initializeMovementHistory(map)
initializeMovementHistory(hist) ==
    IF hist.exists THEN hist ELSE [exists |-> TRUE, latlngs |-> <<>>]

\* updateMovementHistory with unshift for push: the point is put in front
updateMovementHistory_front(hist, newPosition) ==
    IF ~hist.exists
    THEN [exists |-> TRUE, latlngs |-> <<newPosition>>]
    ELSE [exists |-> TRUE, latlngs |-> <<newPosition>> \o hist.latlngs]

\* updateMovementHistory(map, newPosition)
updateMovementHistory(hist, newPosition) ==
    IF ~hist.exists
    THEN [exists |-> TRUE, latlngs |-> <<newPosition>>]
    ELSE [exists |-> TRUE, latlngs |-> Append(hist.latlngs, newPosition)]

(* ------------------------------- actions ------------------------------- *)

\* |pos - OAKES_GRID|, in cells
Dist(pos) ==
    (IF pos.i >= OAKES_GRID.i THEN pos.i - OAKES_GRID.i ELSE OAKES_GRID.i - pos.i)
    + (IF pos.j >= OAKES_GRID.j THEN pos.j - OAKES_GRID.j ELSE OAKES_GRID.j - pos.j)

\* the number of points of the trail
TrailLen == Len(movementHistory.latlngs)

\* the position fixes the location sensor reports
GeoReadings ==
    {[lat |-> (OAKES_GRID.i + 1) * TILE_DEGREES - (TILE_DEGREES \div 2),
      lng |-> OAKES_GRID.j * TILE_DEGREES + (TILE_DEGREES \div 2) - 1]}

\* what the browser's storage holds under "gameState" before the first start:
\* nothing, or what something else left there
StoredItems == {NoItem, Unparsable, NoCachesItem}

\* what no step of the game changes
Fixed == UNCHANGED <<oracle, probe>>

\* the page is closed: nothing runs, the memory is that of a page not yet started
Init ==
    /\ pc = "closed"
    /\ playerPosition = OAKES_GRID
    /\ playerCoins = INITIAL_PLAYER_COINS
    /\ movementHistory = NullPolyline
    /\ caches = EmptyMap
    /\ knownTiles = {}
    /\ cacheMementos = EmptyMap
    /\ localStorage \in StoredItems
    /\ starts = 0
    /\ lastOp = "none"
    /\ oracle = GameOracle
    /\ probe = NoProbe

\* main(): loadGameState(), then initializeMap() with its spawnCaches(map);
\* when loadGameState throws the script ends there, with the page open
main ==
    /\ pc = "closed"
    /\ starts < MaxStarts
    /\ \E mem \in {loadGameState(localStorage, FreshMem)} :
       IF loadThrows(localStorage)
       THEN /\ playerPosition' = mem.playerPosition
            /\ playerCoins' = mem.playerCoins
            /\ movementHistory' = mem.movementHistory
            /\ caches' = mem.caches
            /\ cacheMementos' = EmptyMap
            /\ knownTiles' = {}
            /\ pc' = "crashed"
       ELSE \E w \in {spawnCaches(World(mem.caches, EmptyMap, {}),
                                   mem.playerPosition)} :
            /\ playerPosition' = mem.playerPosition
            /\ playerCoins' = mem.playerCoins
            /\ movementHistory' = initializeMovementHistory(mem.movementHistory)
            /\ caches' = w.caches
            /\ cacheMementos' = w.cacheMementos
            /\ knownTiles' = w.knownTiles
            /\ pc' = "running"
    /\ starts' = starts + 1
    /\ lastOp' = "main"
    /\ UNCHANGED localStorage
    /\ Fixed

\* the beforeunload listener, registered before main() runs: saveGameState(),
\* and the page with its memory is gone
saveGameState ==
    /\ pc \in {"running", "crashed"}
    /\ localStorage' = gameState(Mem)
    /\ playerPosition' = FreshMem.playerPosition
    /\ playerCoins' = FreshMem.playerCoins
    /\ movementHistory' = FreshMem.movementHistory
    /\ caches' = FreshMem.caches
    /\ cacheMementos' = EmptyMap
    /\ knownTiles' = {}
    /\ pc' = "closed"
    /\ lastOp' = "unload"
    /\ UNCHANGED starts
    /\ Fixed

\* movePlayer with knownTiles.clear() before regenerateVisibleCaches(map)
movePlayer_forgetKnown(pos, di, dj) ==
    \E newPos \in {[i |-> pos.i + di, j |-> pos.j + dj]} :
    \E w \in {spawnCaches(World(caches, cacheMementos, {}), newPos)} :
        /\ playerPosition' = newPos
        /\ movementHistory' =
               updateMovementHistory(movementHistory, gridToLatLng(newPos))
        /\ caches' = w.caches
        /\ cacheMementos' = w.cacheMementos
        /\ knownTiles' = w.knownTiles
        /\ UNCHANGED <<playerCoins, localStorage, pc, starts>>
        /\ Fixed

\* movePlayer(map, di, dj) from the position pos
movePlayer(pos, di, dj) ==
    \E newPos \in {[i |-> pos.i + di, j |-> pos.j + dj]} :
    \E w \in {spawnCaches(World(caches, cacheMementos, knownTiles), newPos)} :
        /\ playerPosition' = newPos
        /\ movementHistory' =
               updateMovementHistory(movementHistory, gridToLatLng(newPos))
        /\ caches' = w.caches
        /\ cacheMementos' = w.cacheMementos
        /\ knownTiles' = w.knownTiles
        /\ UNCHANGED <<playerCoins, localStorage, pc, starts>>
        /\ Fixed

\* a click on one of the four movement buttons
moveButton(di, dj) ==
    /\ pc = "running"
    /\ TrailLen < MaxTrail
    /\ Dist([i |-> playerPosition.i + di, j |-> playerPosition.j + dj]) <= MaxStep
    /\ movePlayer(playerPosition, di, dj)
    /\ lastOp' = "move"

\* the watchPosition callback without the two assignments to playerPosition
watchPosition_keepPosition(latLng) ==
    /\ pc = "running"
    /\ TrailLen < MaxTrail
    /\ Dist(latLngToGrid(latLng)) <= MaxStep
    /\ movePlayer(playerPosition, 0, 0)
    /\ lastOp' = "fix"

\* the watchPosition callback with the fix latLng
watchPosition(latLng) ==
    /\ pc = "running"
    /\ TrailLen < MaxTrail
    /\ Dist(latLngToGrid(latLng)) <= MaxStep
    /\ movePlayer(latLngToGrid(latLng), 0, 0)
    /\ lastOp' = "fix"

\* handleCollect with shift() for pop(): the first coin is removed
handleCollect_shift(cacheKey) ==
    IF cacheKey \in DOMAIN caches /\ Len(caches[cacheKey].coins) > 0
    THEN /\ caches' = MapSet(caches, cacheKey,
                 [coins |-> Tail(caches[cacheKey].coins)])
         /\ playerCoins' = playerCoins + 1
    ELSE UNCHANGED <<caches, playerCoins>>

\* handleCollect without the test coins.length > 0: pop() on an empty list
\* removes nothing, playerCoins++ still runs
handleCollect_noGuard(cacheKey) ==
    IF cacheKey \in DOMAIN caches
    THEN /\ caches' = MapSet(caches, cacheKey,
                 [coins |-> SubSeq(caches[cacheKey].coins, 1,
                                   Len(caches[cacheKey].coins) - 1)])
         /\ playerCoins' = playerCoins + 1
    ELSE UNCHANGED <<caches, playerCoins>>

\* handleCollect(cacheKey)
handleCollect(cacheKey) ==
    IF cacheKey \in DOMAIN caches /\ Len(caches[cacheKey].coins) > 0
    THEN /\ caches' = MapSet(caches, cacheKey,
                 [coins |-> SubSeq(caches[cacheKey].coins, 1,
                                   Len(caches[cacheKey].coins) - 1)])
         /\ playerCoins' = playerCoins + 1
    ELSE UNCHANGED <<caches, playerCoins>>

\* handleDeposit without playerCoins--
handleDeposit_keepCoins(cacheKey) ==
    IF cacheKey \in DOMAIN caches /\ playerCoins > 0
    THEN /\ caches' = MapSet(caches, cacheKey,
                 [coins |-> Append(caches[cacheKey].coins,
                                   CoinId(cacheKey, Len(caches[cacheKey].coins)))])
         /\ playerCoins' = playerCoins
    ELSE UNCHANGED <<caches, playerCoins>>

\* handleDeposit without the test playerCoins > 0
handleDeposit_noGuard(cacheKey) ==
    IF cacheKey \in DOMAIN caches
    THEN /\ caches' = MapSet(caches, cacheKey,
                 [coins |-> Append(caches[cacheKey].coins,
                                   CoinId(cacheKey, Len(caches[cacheKey].coins)))])
         /\ playerCoins' = playerCoins - 1
    ELSE UNCHANGED <<caches, playerCoins>>

\* handleDeposit with the serial taken after the push
handleDeposit_serial(cacheKey) ==
    IF cacheKey \in DOMAIN caches /\ playerCoins > 0
    THEN /\ caches' = MapSet(caches, cacheKey,
                 [coins |-> Append(caches[cacheKey].coins,
                                   CoinId(cacheKey, Len(caches[cacheKey].coins) + 1))])
         /\ playerCoins' = playerCoins - 1
    ELSE UNCHANGED <<caches, playerCoins>>

\* handleDeposit with unshift for push: the new coin is put in front
handleDeposit_front(cacheKey) ==
    IF cacheKey \in DOMAIN caches /\ playerCoins > 0
    THEN /\ caches' = MapSet(caches, cacheKey,
                 [coins |-> <<CoinId(cacheKey, Len(caches[cacheKey].coins))>>
                            \o caches[cacheKey].coins])
         /\ playerCoins' = playerCoins - 1
    ELSE UNCHANGED <<caches, playerCoins>>

\* handleDeposit(cacheKey)
handleDeposit(cacheKey) ==
    IF cacheKey \in DOMAIN caches /\ playerCoins > 0
    THEN /\ caches' = MapSet(caches, cacheKey,
                 [coins |-> Append(caches[cacheKey].coins,
                                   CoinId(cacheKey, Len(caches[cacheKey].coins)))])
         /\ playerCoins' = playerCoins - 1
    ELSE UNCHANGED <<caches, playerCoins>>

\* what a click in a popup leaves alone
PopupFrame ==
    UNCHANGED <<playerPosition, movementHistory, knownTiles, cacheMementos,
                localStorage, pc, starts>>

\* a click on Collect in the popup of a cache rectangle on the map; the
\* rectangles on the map are those of the cells of knownTiles
collectClick(cacheKey) ==
    /\ pc = "running"
    /\ cacheKey \in knownTiles
    /\ handleCollect(cacheKey)
    /\ PopupFrame
    /\ lastOp' = "collect"
    /\ Fixed

\* a click on Deposit in the popup of a cache rectangle on the map
depositClick(cacheKey) ==
    /\ pc = "running"
    /\ cacheKey \in knownTiles
    /\ handleDeposit(cacheKey)
    /\ PopupFrame
    /\ lastOp' = "deposit"
    /\ Fixed

\* the restore loop of the reset: every memento is copied into the emptied registry
restoreCaches(mementos) == [k \in DOMAIN mementos |-> mementos[k]]

\* step 2 of the reset with cacheMementos.clear() after the restore loop
resetWorld_forgetMementos(w) ==
    World(restoreCaches(w.cacheMementos), EmptyMap, {})

\* step 2 of the reset without knownTiles.clear()
resetWorld_keepKnown(w) ==
    World(restoreCaches(w.cacheMementos), w.cacheMementos, w.knownTiles)

\* step 2 of the reset without the restore loop
resetWorld_noRestore(w) ==
    World(EmptyMap, w.cacheMementos, {})

\* step 2 of the reset: caches.clear(), knownTiles.clear(), the restore loop
resetWorld(w) ==
    World(restoreCaches(w.cacheMementos), w.cacheMementos, {})

\* the reset handler with a saveGameState() call at its end
resetClick_saves ==
    /\ pc = "running"
    /\ \E w \in {spawnCaches(resetWorld(World(caches, cacheMementos, knownTiles)),
                             OAKES_GRID)} :
           /\ caches' = w.caches
           /\ cacheMementos' = w.cacheMementos
           /\ knownTiles' = w.knownTiles
           /\ localStorage' = gameState(Memory(OAKES_GRID, INITIAL_PLAYER_COINS,
                                               w.caches, NullPolyline))
    /\ playerCoins' = INITIAL_PLAYER_COINS
    /\ playerPosition' = [i |-> OAKES_GRID.i, j |-> OAKES_GRID.j]
    /\ movementHistory' = NullPolyline
    /\ lastOp' = "reset"
    /\ UNCHANGED <<pc, starts>>
    /\ Fixed

\* a click on the reset button
resetClick ==
    /\ pc = "running"
    /\ \E w \in {spawnCaches(resetWorld(World(caches, cacheMementos, knownTiles)),
                             OAKES_GRID)} :
           /\ caches' = w.caches
           /\ cacheMementos' = w.cacheMementos
           /\ knownTiles' = w.knownTiles
    /\ playerCoins' = INITIAL_PLAYER_COINS
    /\ playerPosition' = [i |-> OAKES_GRID.i, j |-> OAKES_GRID.j]
    /\ movementHistory' = NullPolyline
    /\ lastOp' = "reset"
    /\ UNCHANGED <<localStorage, pc, starts>>
    /\ Fixed

Next ==
    \/ main
    \/ saveGameState
    \/ moveButton(1, 0)
    \/ moveButton(-1, 0)
    \/ moveButton(0, -1)
    \/ moveButton(0, 1)
    \/ \E latLng \in GeoReadings : watchPosition(latLng)
    \/ \E cacheKey \in Cells : collectClick(cacheKey)
    \/ \E cacheKey \in Cells : depositClick(cacheKey)
    \/ resetClick

Spec == Init /\ [][Next]_vars

(* ------------------- the game with nothing stored at first ------------- *)

\* the first start of the game in a browser that has nothing stored for it
CleanInit == Init /\ localStorage = NoItem

CleanSpec == CleanInit /\ [][Next]_vars

(* ---------------- the generation policy over all luck values ----------- *)

\* the values luck can return, in hundredths: 0.00 .. 0.99
LuckValues == 0..99

\* a first start with nothing stored, for every pair of luck values of CellA
PolicyInit ==
    /\ pc = "closed"
    /\ playerPosition = OAKES_GRID
    /\ playerCoins = INITIAL_PLAYER_COINS
    /\ movementHistory = NullPolyline
    /\ caches = EmptyMap
    /\ knownTiles = {}
    /\ cacheMementos = EmptyMap
    /\ localStorage = NoItem
    /\ starts = 0
    /\ lastOp = "none"
    /\ oracle \in [spawn : LuckValues, coins : LuckValues]
    /\ probe = NoProbe

PolicyNext == main

PolicySpec == PolicyInit /\ [][PolicyNext]_vars

(* ------------------ the coordinate conversions on their own ------------ *)

\* the rounding error of a double product or quotient, far below one unit,
\* is taken as up to one unit (a tenth of a cell) either way
FloatErrors == {-1, 0, 1}

\* gridToLatLng({i, j}) as double arithmetic gives it: the exact value plus
\* a rounding error
gridToLatLngFloat(cell, err) ==
    [lat |-> gridToLatLng(cell).lat + err.lat,
     lng |-> gridToLatLng(cell).lng + err.lng]

\* the cells put through the conversions: around Null Island on both sides
\* of zero, and around the start cell
ProbeCells ==
    {[i |-> a, j |-> b] : a \in (-2..2) \cup {OAKES_GRID.i},
                          b \in (-2..2) \cup {OAKES_GRID.j}}

\* a cell and a rounding error are chosen, nothing is converted yet
CoordInit ==
    /\ pc = "closed"
    /\ playerPosition = OAKES_GRID
    /\ playerCoins = INITIAL_PLAYER_COINS
    /\ movementHistory = NullPolyline
    /\ caches = EmptyMap
    /\ knownTiles = {}
    /\ cacheMementos = EmptyMap
    /\ localStorage = NoItem
    /\ starts = 0
    /\ lastOp = "none"
    /\ oracle = GameOracle
    /\ probe \in {[cell |-> c, err |-> [lat |-> e, lng |-> f], done |-> FALSE,
                    out |-> [i |-> 0, j |-> 0]] :
                       c \in ProbeCells, e \in FloatErrors, f \in FloatErrors}

\* latLngToGrid(gridToLatLng(cell))
convert ==
    /\ ~probe.done
    /\ probe' = [probe EXCEPT
                    !.done = TRUE,
                    !.out = latLngToGrid(gridToLatLngFloat(probe.cell, probe.err))]
    /\ UNCHANGED <<pc, playerPosition, playerCoins, movementHistory, caches,
                   knownTiles, cacheMementos, localStorage, starts, lastOp,
                   oracle>>

CoordNext == convert

CoordSpec == CoordInit /\ [][CoordNext]_vars

(* --------------- the popup handlers called for any cell ---------------- *)

\* the coin list createCachePopup and updatePopupUI render from the registry c:
\* cache?.coins.map(...).join("") || "No coins left"
coinListHtml(c, cacheKey) ==
    IF cacheKey \in DOMAIN c /\ Len(c[cacheKey].coins) > 0
    THEN [items |-> [n \in DOMAIN c[cacheKey].coins |-> c[cacheKey].coins[n].id],
          text |-> ""]
    ELSE [items |-> <<>>, text |-> "No coins left"]

\* what a caller gets from a handler for cacheKey: no handler returns a value,
\* and the popup shows the list rendered from the registry c
Outcome(c, cacheKey) ==
    [key |-> cacheKey, returned |-> "undefined",
     coinList |-> coinListHtml(c, cacheKey)]

\* the first start with nothing stored; no handler has been called
ApiInit ==
    /\ pc = "closed"
    /\ playerPosition = OAKES_GRID
    /\ playerCoins = INITIAL_PLAYER_COINS
    /\ movementHistory = NullPolyline
    /\ caches = EmptyMap
    /\ knownTiles = {}
    /\ cacheMementos = EmptyMap
    /\ localStorage = NoItem
    /\ starts = 0
    /\ lastOp = "none"
    /\ oracle = GameOracle
    /\ probe = Outcome(EmptyMap, CellA)

\* the body of the Collect listener for any cacheKey: handleCollect(cacheKey),
\* then updatePopupUI(cacheKey, popupDiv)
collectCall(cacheKey) ==
    /\ pc = "running"
    /\ handleCollect(cacheKey)
    /\ PopupFrame
    /\ lastOp' = "collect"
    /\ probe' = Outcome(caches', cacheKey)
    /\ UNCHANGED oracle

\* the body of the Deposit listener for any cacheKey: handleDeposit(cacheKey),
\* then updatePopupUI(cacheKey, popupDiv)
depositCall(cacheKey) ==
    /\ pc = "running"
    /\ handleDeposit(cacheKey)
    /\ PopupFrame
    /\ lastOp' = "deposit"
    /\ probe' = Outcome(caches', cacheKey)
    /\ UNCHANGED oracle

\* createCachePopup(cacheKey) for any cacheKey: the query of a cache
queryCall(cacheKey) ==
    /\ pc = "running"
    /\ PopupFrame
    /\ lastOp' = "query"
    /\ probe' = Outcome(caches, cacheKey)
    /\ UNCHANGED <<caches, playerCoins, oracle>>

ApiNext ==
    \/ main
    \/ moveButton(1, 0)
    \/ \E cacheKey \in Cells : collectCall(cacheKey)
    \/ \E cacheKey \in Cells : depositCall(cacheKey)
    \/ \E cacheKey \in Cells : queryCall(cacheKey)

ApiSpec == ApiInit /\ [][ApiNext]_vars

(* ------------------- pairs of transfers on one cache ------------------- *)

\* what a transfer works on: the registry and the player's coins
Purse == [caches |-> caches, playerCoins |-> playerCoins]

\* the first start with nothing stored, for every coin luck of CellA; the
\* probe remembers the last successful transfer, the purse before it and the
\* purse before the transfer preceding it
TransferInit ==
    /\ pc = "closed"
    /\ playerPosition = OAKES_GRID
    /\ playerCoins = INITIAL_PLAYER_COINS
    /\ movementHistory = NullPolyline
    /\ caches = EmptyMap
    /\ knownTiles = {}
    /\ cacheMementos = EmptyMap
    /\ localStorage = NoItem
    /\ starts = 0
    /\ lastOp = "none"
    /\ oracle \in [spawn : {GameOracle.spawn}, coins : LuckValues]
    /\ probe = [op |-> "none", key |-> CellA, before |-> Purse,
                before2 |-> Purse, pair |-> FALSE]

\* a click on Collect that takes a coin
collectPair(cacheKey) ==
    /\ pc = "running"
    /\ cacheKey \in knownTiles
    /\ Len(caches[cacheKey].coins) > 0
    /\ handleCollect(cacheKey)
    /\ PopupFrame
    /\ lastOp' = "collect"
    /\ probe' = [op |-> "collect", key |-> cacheKey, before |-> Purse,
                 before2 |-> probe.before,
                 pair |-> (probe.op = "deposit" /\ probe.key = cacheKey)]
    /\ UNCHANGED oracle

\* a click on Deposit that puts a coin
depositPair(cacheKey) ==
    /\ pc = "running"
    /\ cacheKey \in knownTiles
    /\ playerCoins > 0
    /\ handleDeposit(cacheKey)
    /\ PopupFrame
    /\ lastOp' = "deposit"
    /\ probe' = [op |-> "deposit", key |-> cacheKey, before |-> Purse,
                 before2 |-> probe.before,
                 pair |-> (probe.op = "collect" /\ probe.key = cacheKey)]
    /\ UNCHANGED oracle

TransferNext ==
    \/ main
    \/ \E cacheKey \in Cells : collectPair(cacheKey)
    \/ \E cacheKey \in Cells : depositPair(cacheKey)

TransferSpec == TransferInit /\ [][TransferNext]_vars

(* ----------- the earlier version of the map (main.ts, lines 1-364) ------ *)

\* In this version a cache and its memento are two objects whose field coins
\* is one and the same array.  An array is modelled by a reference
\* [array |-> cacheKey], named after the cell it was made for, and the
\* variable probe is the heap: the content of every array.

\* the record {coins: cacheCoins} around the array made for cacheKey
CoinsRef(cacheKey) == [coins |-> [array |-> cacheKey]]

\* the earlier spawnCache(map, i, j) on the registry w and the heap
earlySpawnCache(w, heap, i, j) ==
    LET cacheKey == <<i, j>>
    IN  IF cacheKey \in DOMAIN w.cacheMementos
        THEN [world |-> World(MapSet(w.caches, cacheKey,
                                     w.cacheMementos[cacheKey]),
                              w.cacheMementos, w.knownTiles),
              heap |-> heap]
        ELSE [world |-> World(MapSet(w.caches, cacheKey, CoinsRef(cacheKey)),
                              MapSet(w.cacheMementos, cacheKey,
                                     CoinsRef(cacheKey)),
                              w.knownTiles),
              heap |-> MapSet(heap, cacheKey, cacheCoins(i, j))]

RECURSIVE earlySpawnLoop(_, _)
\* the loops of the earlier spawnCaches over cells, in the order of the loops
earlySpawnLoop(s, cells) ==
    IF cells = {} THEN s
    ELSE LET c == FirstCell(cells)
             t == IF c \notin s.world.knownTiles /\ shouldSpawnCache(c[1], c[2])
                  THEN LET u == earlySpawnCache(s.world, s.heap, c[1], c[2])
                       IN  [world |-> World(u.world.caches, u.world.cacheMementos,
                                            u.world.knownTiles \cup {c}),
                            heap |-> u.heap]
                  ELSE s
         IN  earlySpawnLoop(t, cells \ {c})

\* the earlier spawnCaches(map) with the player at pos
earlySpawnCaches(w, heap, pos) ==
    earlySpawnLoop([world |-> w, heap |-> heap],
                   {c \in Neighborhood(pos) : shouldSpawnCache(c[1], c[2])})

\* the page is closed, nothing is stored, the heap holds no array
EarlyInit ==
    /\ pc = "closed"
    /\ playerPosition = OAKES_GRID
    /\ playerCoins = INITIAL_PLAYER_COINS
    /\ movementHistory = NullPolyline
    /\ caches = EmptyMap
    /\ knownTiles = {}
    /\ cacheMementos = EmptyMap
    /\ localStorage = NoItem
    /\ starts = 0
    /\ lastOp = "none"
    /\ oracle = GameOracle
    /\ probe = EmptyMap

\* the earlier main(): loadGameState() finds nothing, initializeMap() runs
\* spawnCaches(map) and initializeMovementHistory(map)
earlyMain ==
    /\ pc = "closed"
    /\ ~localStorage.present
    /\ \E s \in {earlySpawnCaches(World(caches, cacheMementos, knownTiles),
                                   probe, playerPosition)} :
           /\ caches' = s.world.caches
           /\ cacheMementos' = s.world.cacheMementos
           /\ knownTiles' = s.world.knownTiles
           /\ probe' = s.heap
    /\ movementHistory' = [exists |-> TRUE, latlngs |-> <<>>]
    /\ pc' = "running"
    /\ starts' = starts + 1
    /\ lastOp' = "main"
    /\ UNCHANGED <<playerPosition, playerCoins, localStorage, oracle>>

\* the earlier movePlayer(map, di, dj) on a click on a movement button
earlyMovePlayer(di, dj) ==
    /\ pc = "running"
    /\ TrailLen < MaxTrail
    /\ Dist([i |-> playerPosition.i + di, j |-> playerPosition.j + dj]) <= MaxStep
    /\ \E newPos \in {[i |-> playerPosition.i + di, j |-> playerPosition.j + dj]} :
       \E s \in {earlySpawnCaches(World(caches, cacheMementos, knownTiles),
                                   probe, newPos)} :
           /\ playerPosition' = newPos
           /\ caches' = s.world.caches
           /\ cacheMementos' = s.world.cacheMementos
           /\ knownTiles' = s.world.knownTiles
           /\ probe' = s.heap
           /\ movementHistory' =
                  [exists |-> TRUE,
                   latlngs |-> Append(movementHistory.latlngs, gridToLatLng(newPos))]
    /\ lastOp' = "move"
    /\ UNCHANGED <<playerCoins, localStorage, pc, starts, oracle>>

\* the earlier handleCollect(cacheKey) on a click in the popup of a rectangle:
\* cache.coins.pop() works on the array the cache refers to
earlyHandleCollect(cacheKey) ==
    /\ pc = "running"
    /\ cacheKey \in knownTiles
    /\ LET array == caches[cacheKey].coins.array
       IN  IF Len(probe[array]) > 0
           THEN /\ probe' = MapSet(probe, array,
                                   SubSeq(probe[array], 1, Len(probe[array]) - 1))
                /\ playerCoins' = playerCoins + 1
           ELSE UNCHANGED <<probe, playerCoins>>
    /\ lastOp' = "collect"
    /\ UNCHANGED <<caches, cacheMementos, knownTiles, playerPosition,
                   movementHistory, localStorage, pc, starts, oracle>>

\* the earlier handleDeposit(cacheKey) on a click in the popup of a rectangle:
\* cache.coins.push(newCoin) works on the array the cache refers to
earlyHandleDeposit(cacheKey) ==
    /\ pc = "running"
    /\ cacheKey \in knownTiles
    /\ LET array == caches[cacheKey].coins.array
       IN  IF playerCoins > 0
           THEN /\ probe' = MapSet(probe, array,
                                   Append(probe[array],
                                          CoinId(cacheKey, Len(probe[array]))))
                /\ playerCoins' = playerCoins - 1
           ELSE UNCHANGED <<probe, playerCoins>>
    /\ lastOp' = "deposit"
    /\ UNCHANGED <<caches, cacheMementos, knownTiles, playerPosition,
                   movementHistory, localStorage, pc, starts, oracle>>

EarlyNext ==
    \/ earlyMain
    \/ earlyMovePlayer(1, 0)
    \/ earlyMovePlayer(-1, 0)
    \/ earlyMovePlayer(0, -1)
    \/ earlyMovePlayer(0, 1)
    \/ \E cacheKey \in Cells : earlyHandleCollect(cacheKey)
    \/ \E cacheKey \in Cells : earlyHandleDeposit(cacheKey)

EarlySpec == EarlyInit /\ [][EarlyNext]_vars

(* ------- the spawners that count coins (part_000 and part_001) --------- *)

\* In the first versions a cache is {coins: number}.

\* the first map version's count without its "+ 1"
firstCoinCount_noPlus(i, j) == luck(<<i, j, "coins">>) \div 10

\* the first map version: Math.floor(luck([i, j, "coins"].toString()) * 10) + 1
firstCoinCount(i, j) == (luck(<<i, j, "coins">>) \div 10) + 1

\* no cache yet, for every coin luck of CellA
CountInit ==
    /\ pc = "closed"
    /\ playerPosition = OAKES_GRID
    /\ playerCoins = INITIAL_PLAYER_COINS
    /\ movementHistory = NullPolyline
    /\ caches = EmptyMap
    /\ knownTiles = {}
    /\ cacheMementos = EmptyMap
    /\ localStorage = NoItem
    /\ starts = 0
    /\ lastOp = "none"
    /\ oracle \in [spawn : {GameOracle.spawn}, coins : LuckValues]
    /\ probe = NoProbe

\* what the two spawners leave alone
CountFrame ==
    UNCHANGED <<pc, playerPosition, playerCoins, movementHistory, knownTiles,
                cacheMementos, localStorage, starts, oracle, probe>>

\* spawnCache(i, j) of the first map version
firstSpawnCache(i, j) ==
    /\ lastOp = "none"
    /\ caches' = MapSet(caches, <<i, j>>, [coins |-> firstCoinCount(i, j)])
    /\ lastOp' = "spawn"
    /\ CountFrame

\* addCache(i, j) of the console version
addCache(i, j) ==
    /\ lastOp = "none"
    /\ caches' = MapSet(caches, <<i, j>>,
                        [coins |-> Max(1, luck(<<i, j, "coins">>) \div 10)])
    /\ lastOp' = "add"
    /\ CountFrame

CountNext ==
    \/ firstSpawnCache(CellA[1], CellA[2])
    \/ addCache(CellA[1], CellA[2])

CountSpec == CountInit /\ [][CountNext]_vars

(* ------------------------------ properties ----------------------------- *)

RECURSIVE CoinsIn(_)
\* the number of coins over all caches of the registry m
CoinsIn(m) ==
    IF DOMAIN m = {} THEN 0
    ELSE LET k == CHOOSE x \in DOMAIN m : TRUE
         IN  Len(m[k].coins) + CoinsIn([x \in (DOMAIN m) \ {k} |-> m[x]])

\* the player's coins plus the coins of all live caches
Total == playerCoins + CoinsIn(caches)

\* the content spawnCache generates for the cell of key
Generated(key) == [coins |-> cacheCoins(key[1], key[2])]

\* C1: a collect or a deposit, successful or not, leaves the sum of the
\* player's coins and the coins of all live caches unchanged; while the page
\* runs the sum grows only in a step that materializes a cache.
Conservation ==
    [][/\ (\E k \in Cells : collectClick(k) \/ depositClick(k)) => Total' = Total
       /\ (pc = "running" /\ pc' = "running" /\ Total' > Total)
            => \/ knownTiles' \ knownTiles # {}
               \/ lastOp' = "reset" /\ knownTiles' # {}]_vars

\* a deposit has just moved a coin from the player into CellB
ConservationWitness ==
    /\ lastOp = "deposit"
    /\ playerCoins = 1
    /\ CellB \in DOMAIN caches
    /\ Len(caches[CellB].coins) = 2
    /\ Total = 4

\* C2: the player's coin count and every cache's coin count are never negative.
NonNegativity ==
    /\ playerCoins >= 0
    /\ \A k \in DOMAIN caches : Len(caches[k].coins) >= 0

\* the last click was a deposit, the player holds no coin and CellA is empty
NonNegativityWitness ==
    /\ lastOp = "deposit"
    /\ playerCoins = 0
    /\ CellA \in DOMAIN caches
    /\ Len(caches[CellA].coins) = 0

\* C3: while the page runs, a memento once recorded keeps its coin sequence
\* in every step (collect, deposit, move, position fix, reset).
MementoImmutable ==
    [][(pc = "running" /\ pc' = "running")
         => \A k \in DOMAIN cacheMementos :
              /\ k \in DOMAIN cacheMementos'
              /\ cacheMementos'[k] = cacheMementos[k]]_vars

\* the last click changed the live cache of CellB, discovered by a move;
\* its memento still holds the generated content
MementoImmutableWitness ==
    /\ lastOp \in {"collect", "deposit"}
    /\ movementHistory.exists /\ TrailLen = 1
    /\ starts = 1
    /\ CellB \in knownTiles
    /\ cacheMementos[CellB] = Generated(CellB)
    /\ caches[CellB] # cacheMementos[CellB]

\* C4 as claimed: a reset leaves every cell that had a live cache with a live
\* cache holding its memento, which is the generated content; and a cell
\* materialized afterwards gets the generated content.
ResetRestoresCaches ==
    [][/\ lastOp' = "reset" =>
            \A k \in DOMAIN caches :
              /\ k \in DOMAIN caches'
              /\ k \in DOMAIN cacheMementos'
              /\ caches'[k] = cacheMementos'[k]
              /\ caches'[k] = Generated(k)
       /\ \A k \in knownTiles' \ knownTiles : caches'[k] = Generated(k)]_vars

\* C5: right after a reset the player is at OAKES_GRID with no coins, the
\* trail is empty and the discovery set holds exactly the cells the reset
\* materialized around OAKES_GRID.
ResetRestoresPlayer ==
    lastOp = "reset" =>
        /\ playerPosition = OAKES_GRID
        /\ playerCoins = 0
        /\ ~movementHistory.exists
        /\ movementHistory.latlngs = <<>>
        /\ knownTiles = {c \in Neighborhood(OAKES_GRID) :
                            shouldSpawnCache(c[1], c[2])}

\* a reset has just discarded the discovery mark of CellB
ResetRestoresPlayerWitness ==
    /\ lastOp = "reset"
    /\ CellB \in DOMAIN cacheMementos
    /\ CellB \notin knownTiles

\* C6: a move or a position fix leaves the live cache and the memento of
\* every cell already in the discovery set unchanged.
IdempotentDiscovery ==
    [][lastOp' \in {"move", "fix"} =>
         \A k \in knownTiles :
           /\ k \in DOMAIN caches' /\ caches'[k] = caches[k]
           /\ k \in DOMAIN cacheMementos'
           /\ cacheMementos'[k] = cacheMementos[k]]_vars

\* the player has just moved with a modified cache in the neighbourhood
IdempotentDiscoveryWitness ==
    /\ lastOp = "move"
    /\ CellA \in knownTiles
    /\ CellA \in Neighborhood(playerPosition)
    /\ caches[CellA] # cacheMementos[CellA]

\* C7 as claimed: after the startup sequence every cache of the snapshot
\* holds the coins the snapshot records.
SnapshotSurvivesRestart ==
    (lastOp = "main" /\ pc = "running" /\ localStorage.present) =>
        \A n \in DOMAIN localStorage.caches :
          /\ localStorage.caches[n][1] \in DOMAIN caches
          /\ caches[localStorage.caches[n][1]] = localStorage.caches[n][2]

\* C8: saveGameState followed by loadGameState gives back the position, the
\* coins, the cache registry and the trail.
SaveLoadRoundTrip ==
    pc = "running" =>
        LET mem == loadGameState(gameState(Mem), FreshMem)
        IN  /\ mem.playerPosition = playerPosition
            /\ mem.playerCoins = playerCoins
            /\ mem.caches = caches
            /\ mem.movementHistory.latlngs = movementHistory.latlngs

\* a state with coins in the pocket, two caches and a trail of two points
SaveLoadRoundTripWitness ==
    /\ pc = "running"
    /\ playerCoins > 0
    /\ TrailLen = 2
    /\ CellA \in DOMAIN caches /\ CellB \in DOMAIN caches
    /\ caches[CellB] # Generated(CellB)

\* C9: a collect on a cache with n >= 1 coins removes the last coin, which
\* has the highest serial, keeps the first n-1 in order and gives the player
\* one coin.
CollectTakesLast ==
    [][\A k \in Cells :
         (collectClick(k) /\ k \in DOMAIN caches /\ Len(caches[k].coins) >= 1)
           => LET coins == caches[k].coins
                  n == Len(coins)
              IN  /\ caches'[k].coins = [m \in 1..(n - 1) |-> coins[m]]
                  /\ \A m \in 1..(n - 1) :
                        coins[m].id.serial < coins[n].id.serial
                  /\ playerCoins' = playerCoins + 1]_vars

\* two collects on the three coins of CellA: one coin left, two in the pocket
CollectTakesLastWitness ==
    /\ lastOp = "collect"
    /\ starts = 1
    /\ CellB \notin DOMAIN caches
    /\ caches[CellA].coins = <<CoinId(CellA, 0)>>
    /\ playerCoins = 2

\* C10: a deposit with playerCoins >= 1 on an existing cache of length L
\* appends one coin with the id "<i>,<j>#<L>", keeps the earlier coins and
\* takes one coin from the player.
DepositAppends ==
    [][\A k \in Cells :
         (depositClick(k) /\ k \in DOMAIN caches /\ playerCoins >= 1)
           => LET coins == caches[k].coins
                  L == Len(coins)
              IN  /\ Len(caches'[k].coins) = L + 1
                  /\ \A m \in 1..L : caches'[k].coins[m] = coins[m]
                  /\ caches'[k].coins[L + 1] = [id |-> [key |-> k, serial |-> L]]
                  /\ playerCoins' = playerCoins - 1]_vars

\* a deposit has just put a second coin into CellB
DepositAppendsWitness ==
    /\ lastOp = "deposit"
    /\ playerCoins > 0
    /\ CellB \in DOMAIN caches
    /\ caches[CellB].coins = <<CoinId(CellB, 0), CoinId(CellB, 1)>>

\* C11: a collect on a cache that holds no coin and a deposit by a player who
\* carries no coin change nothing: the player's coins, every cache, every
\* memento, the discovery set, the position and the trail stay as they were
NoOpTransfers ==
    [][\A cacheKey \in Cells :
          (\/ /\ collectClick(cacheKey)
              /\ Len(caches[cacheKey].coins) = 0
           \/ /\ depositClick(cacheKey)
              /\ playerCoins = 0)
          => UNCHANGED <<playerCoins, caches, cacheMementos, knownTiles,
                         playerPosition, movementHistory, localStorage>>]_vars

\* a collect click was made on an emptied cache: the player had moved every
\* coin of CellA to CellB before, and still carries none
NoOpTransfersWitness ==
    /\ lastOp = "collect"
    /\ playerCoins = 0
    /\ CellA \in knownTiles /\ Len(caches[CellA].coins) = 0
    /\ CellB \in knownTiles /\ Len(caches[CellB].coins) > Len(cacheMementos[CellB].coins)

\* the state of a first start with nothing stored
DefaultWorld == spawnCaches(World(EmptyMap, EmptyMap, {}), OAKES_GRID)

\* C12 as claimed: when the stored snapshot is absent, not parseable or lacks
\* the list of caches, the startup does not abort and ends in the default
\* initial state, with no field of the snapshot applied
LoadRecovers ==
    (lastOp = "main" /\ localStorage \in {NoItem, Unparsable, NoCachesItem}) =>
        /\ pc = "running"
        /\ playerPosition = OAKES_GRID
        /\ playerCoins = INITIAL_PLAYER_COINS
        /\ movementHistory = [exists |-> TRUE, latlngs |-> <<>>]
        /\ caches = DefaultWorld.caches
        /\ cacheMementos = DefaultWorld.cacheMementos
        /\ knownTiles = DefaultWorld.knownTiles

\* the cells the stored snapshot item holds a cache for
StoredKeys(item) == {item.caches[n][1] : n \in DOMAIN item.caches}

\* C13 as claimed: a cache is never deleted: a cell with a registry entry has
\* one after every move, collect, deposit and reset of the running page, the
\* snapshot written at shutdown holds it, and the load at startup brings back
\* every cell of the snapshot
CacheNeverDeleted ==
    [][/\ (pc = "running" /\ pc' = "running") =>
              DOMAIN caches \subseteq DOMAIN caches'
       /\ (pc = "running" /\ lastOp' = "unload") =>
              DOMAIN caches \subseteq StoredKeys(localStorage')
       /\ (lastOp' = "main" /\ pc' = "running" /\ localStorage.present) =>
              StoredKeys(localStorage) \subseteq DOMAIN caches']_vars

\* C14: with the oracle fixed, generation is the same in every page run: a
\* memento is made only for a cell the spawn decision accepts, and a memento
\* made in any run, the first or one after a restart, holds the coin sequence
\* generated for its cell, so a regenerated memento equals the one of the
\* run before
GenerationDeterministic ==
    \A k \in DOMAIN cacheMementos :
        /\ shouldSpawnCache(k[1], k[2])
        /\ cacheMementos[k] = Generated(k)

\* the second page run has regenerated the memento of CellA, whose cache the
\* first run had changed and saved
GenerationDeterministicWitness ==
    /\ starts = 2
    /\ pc = "running"
    /\ CellA \in DOMAIN cacheMementos
    /\ localStorage.present
    /\ "caches" \in DOMAIN localStorage
    /\ \E n \in DOMAIN localStorage.caches :
          /\ localStorage.caches[n][1] = CellA
          /\ localStorage.caches[n][2] # Generated(CellA)

\* C15: a cache is generated only for a cell whose luck is below 0.1, and a
\* newly generated cache holds max(1, floor(luck(i, j, "coins") * 10)) coins,
\* between 1 and 9 for every luck value of [0, 1), with the ids
\* "<i>,<j>#0" .. "<i>,<j>#(n-1)" in this order
InitialCoinCount ==
    lastOp = "main" =>
        /\ CellA \in DOMAIN caches <=> oracle.spawn < 10
        /\ \A k \in DOMAIN caches :
              LET coins == caches[k].coins
                  n == Len(coins)
                  tenths == luck(<<k[1], k[2], "coins">>) \div 10
              IN  /\ luck(<<k[1], k[2]>>) < 10
                  /\ n = IF tenths >= 1 THEN tenths ELSE 1
                  /\ 1 <= n /\ n <= 9
                  /\ \A m \in 1..n :
                        coins[m] = [id |-> [key |-> k, serial |-> m - 1]]

\* the start has generated the cache of CellA with a coin luck below 0.1:
\* floor(luck * 10) is 0 and the cache holds the one coin "#0"
InitialCoinCountWitness ==
    /\ lastOp = "main"
    /\ oracle.spawn = 9
    /\ oracle.coins = 9
    /\ CellA \in DOMAIN caches
    /\ caches[CellA].coins = <<CoinId(CellA, 0)>>

\* the cell c lies in the half-open square of side 16 around pos
InSquare(c, pos) ==
    /\ pos.i - 8 <= c[1] /\ c[1] < pos.i + 8
    /\ pos.j - 8 <= c[2] /\ c[2] < pos.j + 8

\* C16: a move by one cell sets the position to the old position plus the
\* delta and appends exactly one point, that of the new position, to the
\* trail; afterwards every cell of the square around the new position that
\* the spawn decision accepts has a live cache and is discovered, no cell
\* outside the square is newly materialized, and the player's coins are
\* unchanged
MoveEffect ==
    [][lastOp' = "move" =>
         /\ \E d \in {<<1, 0>>, <<-1, 0>>, <<0, -1>>, <<0, 1>>} :
               playerPosition' = [i |-> playerPosition.i + d[1],
                                  j |-> playerPosition.j + d[2]]
         /\ movementHistory'.exists
         /\ movementHistory'.latlngs =
                Append(movementHistory.latlngs, gridToLatLng(playerPosition'))
         /\ \A c \in Cells :
               (InSquare(c, playerPosition') /\ shouldSpawnCache(c[1], c[2]))
                  => c \in DOMAIN caches' /\ c \in knownTiles'
         /\ \A c \in (knownTiles' \ knownTiles)
                       \cup (DOMAIN caches' \ DOMAIN caches) :
               InSquare(c, playerPosition')
         /\ playerCoins' = playerCoins]_vars

\* a move up has just discovered CellB while the player carries a coin
MoveEffectWitness ==
    /\ lastOp = "move"
    /\ playerPosition = [i |-> OAKES_GRID.i + 1, j |-> OAKES_GRID.j]
    /\ playerCoins = 1
    /\ TrailLen = 1
    /\ CellB \in knownTiles
    /\ caches[CellB] = Generated(CellB)

\* C17: for every grid cell c, converting c to its geographic position and
\* back gives c again: latLngToGrid(gridToLatLng(c)) = c
CoordinateRoundTrip ==
    probe.done => probe.out = probe.cell

\* the start cell has gone through both conversions, the product rounded
\* down in latitude and up in longitude
CoordinateRoundTripWitness ==
    /\ probe.done
    /\ probe.cell = OAKES_GRID
    /\ probe.err = [lat |-> -1, lng |-> 1]
    /\ probe.out = OAKES_GRID

\* C18 as claimed: the snapshot is also written on a reset, so right after a
\* reset the stored snapshot is that of the reset state
ResetIsSaved ==
    lastOp = "reset" => localStorage = gameState(Mem)

\* C18: the snapshot is written on shutdown only: the stored item changes in
\* no other step, a reset leaves it as it was, and the shutdown stores the
\* state the page is in, which after a reset is the reset state
SavedOnShutdownOnly ==
    [][/\ localStorage' # localStorage => lastOp' = "unload"
       /\ lastOp' = "reset" => localStorage' = localStorage
       /\ lastOp' = "unload" => localStorage' = gameState(Mem)]_vars

\* a reset in the second page run: the stored snapshot is still the one of
\* the first shutdown, with a coin in the pocket and a changed cache
SavedOnShutdownOnlyWitness ==
    /\ lastOp = "reset"
    /\ playerCoins = 0
    /\ localStorage.present
    /\ "caches" \in DOMAIN localStorage
    /\ localStorage.playerCoins = 1
    /\ localStorage # gameState(Mem)

\* C19 as claimed: a collect, a deposit or a query for a cell that has no
\* entry in the registry gives the caller an outcome of its own, different
\* from the one the same cell would give with an empty cache
NotFoundSurfaced ==
    (lastOp \in {"collect", "deposit", "query"} /\ probe.key \notin DOMAIN caches)
        => probe # Outcome(MapSet(caches, probe.key, [coins |-> <<>>]), probe.key)

\* C20: a position fix for the cell c sets the position to c and then does
\* what a move with zero delta does: every cell of the square around c that
\* the spawn decision accepts has a live cache and is discovered, nothing
\* outside the square is newly materialized, exactly one point, that of c,
\* is appended to the trail, and the player's coins and the caches of the
\* cells discovered before are unchanged
PositionFixEffect ==
    [][lastOp' = "fix" =>
         \E latLng \in GeoReadings :
            LET c == latLngToGrid(latLng)
            IN  /\ playerPosition' = c
                /\ movementHistory'.exists
                /\ movementHistory'.latlngs =
                       Append(movementHistory.latlngs, gridToLatLng(c))
                /\ \A k \in Cells :
                      (InSquare(k, c) /\ shouldSpawnCache(k[1], k[2]))
                         => k \in DOMAIN caches' /\ k \in knownTiles'
                /\ \A k \in (knownTiles' \ knownTiles)
                              \cup (DOMAIN caches' \ DOMAIN caches) :
                      InSquare(k, c)
                /\ playerCoins' = playerCoins
                /\ \A k \in knownTiles :
                      k \in knownTiles' /\ caches'[k] = caches[k]]_vars

\* a fix has taken the player from a cell beside the start cell to the cell
\* above it and discovered CellB, while CellA keeps the one coin left in it
PositionFixEffectWitness ==
    /\ lastOp = "fix"
    /\ playerPosition = [i |-> OAKES_GRID.i + 1, j |-> OAKES_GRID.j]
    /\ TrailLen = 2
    /\ movementHistory.latlngs[1] # movementHistory.latlngs[2]
    /\ playerCoins = 2
    /\ CellB \in knownTiles
    /\ Len(caches[CellA].coins) = 1

NoCoinDuplication ==
    pc = "running" =>
        playerCoins + CoinsIn(caches)
            = CoinsIn([k \in DOMAIN caches |-> Generated(k)])

\* C23: in every state, in every cache the coin at the zero-based index n has
\* the id "<key>#<n>", so no two coins of the registry share an id and the
\* last coin of a cache, the one a collect removes, has the highest serial
CoinIdentity ==
    /\ \A k \in DOMAIN caches :
          \A n \in DOMAIN caches[k].coins :
              caches[k].coins[n] = [id |-> [key |-> k, serial |-> n - 1]]
    /\ \A k1 \in DOMAIN caches, k2 \in DOMAIN caches :
          \A n1 \in DOMAIN caches[k1].coins, n2 \in DOMAIN caches[k2].coins :
              caches[k1].coins[n1].id = caches[k2].coins[n2].id
                  => (k1 = k2 /\ n1 = n2)

\* in the second page run a deposit has made CellB longer than generated with
\* coins collected from CellA
CoinIdentityWitness ==
    /\ lastOp = "deposit"
    /\ starts = 2
    /\ CellA \in DOMAIN caches /\ Len(caches[CellA].coins) = 1
    /\ CellB \in DOMAIN caches /\ Len(caches[CellB].coins) = 3

\* C24: a successful collect followed at once by a deposit into the same
\* cache, and a successful deposit followed at once by a collect from the
\* same cache, give back the cache's coin ids in their order and the player's
\* coin count
TransferRoundTrip ==
    probe.pair =>
        /\ caches[probe.key].coins = probe.before2.caches[probe.key].coins
        /\ playerCoins = probe.before2.playerCoins

\* a deposit has just put back the coin a collect took from a cache of nine
TransferRoundTripWitness ==
    /\ probe.pair
    /\ lastOp = "deposit"
    /\ probe.key = CellA
    /\ playerCoins = 0
    /\ Len(caches[CellA].coins) = 9

IsPrefix(a, b) == Len(a) <= Len(b) /\ a = SubSeq(b, 1, Len(a))

\* C26: after every step the trail is empty or its last point is the
\* geographic position of the player's cell; while the page runs the trail
\* only grows at its end, except that a reset empties it; and the startup
\* brings back the stored trail as it was
TrailTracksPosition ==
    [][/\ \/ movementHistory'.latlngs = <<>>
          \/ movementHistory'.latlngs[Len(movementHistory'.latlngs)]
                 = gridToLatLng(playerPosition')
       /\ (pc = "running" /\ pc' = "running") =>
              IF lastOp' = "reset"
              THEN movementHistory'.latlngs = <<>>
              ELSE IsPrefix(movementHistory.latlngs, movementHistory'.latlngs)
       /\ (lastOp' = "main" /\ pc' = "running" /\ localStorage.present) =>
              movementHistory'.latlngs = localStorage.movementHistory]_vars

\* the second page run has just started away from the start cell, with the
\* two points of the first run's trail
TrailTracksPositionWitness ==
    /\ lastOp = "main"
    /\ starts = 2
    /\ playerPosition # OAKES_GRID
    /\ TrailLen = 2
    /\ movementHistory.latlngs[1] # movementHistory.latlngs[2]
    /\ movementHistory.latlngs[2] = gridToLatLng(playerPosition)

\* C27 as claimed: in the earlier version the memento of a generated cell
\* does not depend on the live cache: after any collects and deposits on the
\* cell's cache the coins of the memento are still the generated ones
EarlyMementoIndependent ==
    \A k \in DOMAIN cacheMementos :
        probe[cacheMementos[k].coins.array] = cacheCoins(k[1], k[2])

\* the specified initial coin count for the coin luck of CellA
FormulaCount ==
    IF oracle.coins \div 10 >= 1 THEN oracle.coins \div 10 ELSE 1

====
